---- MODULE Spec2Model ----
(***************************************************************************)
(* Model of the object detector of Scrap2Bot (src/src/objectdetector.rs):  *)
(* the template store, the active-range selector, the template matcher,    *)
(* the deduplicator (filter_close_detections) and the detect pipeline.     *)
(*                                                                         *)
(* Conventions                                                             *)
(*   - Rust indices are 0-based; active_range holds 0-based indices as in  *)
(*     the source, while TLA+ sequences are 1-based (tpls[i + 1]).         *)
(*   - Option<T> is a sequence: None == <<>>, Some(x) == <<x>>.            *)
(*   - A template name is the sequence of its whitespace-separated tokens, *)
(*     a token is a sequence of one-character strings.                     *)
(*   - f32/f64 quantities (min_distance, threshold, confidence) are small  *)
(*     naturals; sqrt(dx*dx + dy*dy) < d is compared as squares.           *)
(***************************************************************************)
EXTENDS Integers, Naturals, Sequences, FiniteSets, TLC

VARIABLES
    templates,      \* ObjectDetector.templates: Vec<Arc<ObjectTemplate>>
    active_range,   \* ObjectDetector.active_range: (usize, usize)
    full_range,     \* ObjectDetector.full_range: bool
    last_op,        \* history: the public operation that produced this state
    last_detected,  \* history: the detected_numbers of the last update
    pre_range,      \* history: active_range before the last operation
    pre_full,       \* history: full_range before the last operation
    results,        \* the Vec<DetectionResult> given to filter_close_detections
    returned,       \* the Vec<DetectionResult> it returned
    twin,           \* outcome of a second, identical detect call
    surfaces,       \* history: the response surfaces of the last detect call
    matcher,        \* one per-template worker: its position and locals
    workers,        \* one detect call: its position and its workers' results
    proc            \* one process_barrels / process_magnets_cloud call

vars == <<templates, active_range, full_range,
          last_op, last_detected, pre_range, pre_full, results, returned,
          twin, surfaces, matcher, workers, proc>>

----------------------------------------------------------------------------
(* Bounds of the model                                                     *)

MaxTemplates == 3

MaxDetections == 3

LadderSize == 12

SurfaceWidth == 3

MaxEmitted == 3

MaxBarrels == 4

MaxRows == 2

----------------------------------------------------------------------------
(* Option, saturating arithmetic                                           *)

None == <<>>

Some(x) == <<x>>

SatSub(a, b) == IF a >= b THEN a - b ELSE 0

Min2(a, b) == IF a < b THEN a ELSE b

SeqMin(s) == CHOOSE x \in {s[i] : i \in 1..Len(s)} :
                 \A j \in 1..Len(s) : x <= s[j]

SeqMax(s) == CHOOSE x \in {s[i] : i \in 1..Len(s)} :
                 \A j \in 1..Len(s) : x >= s[j]

----------------------------------------------------------------------------
(* Names: split_whitespace().last().and_then(|s| s.parse::<u32>().ok())    *)

DigitChars == <<"0", "1", "2", "3", "4", "5", "6", "7", "8", "9">>

IsDigit(c) == \E i \in 1..10 : DigitChars[i] = c

DigitValue(c) == (CHOOSE i \in 1..10 : DigitChars[i] = c) - 1

RECURSIVE DigitsValue(_, _)
DigitsValue(tok, acc) ==
    IF tok = <<>> THEN acc
    ELSE DigitsValue(Tail(tok), acc * 10 + DigitValue(Head(tok)))

(* str::parse::<u32>: an optional leading '+', then one or more ASCII      *)
(* digits; anything else is an Err.  (A value above u32::MAX is an Err     *)
(* too; the tokens of this model have at most two digits.)                 *)
ParseU32(tok) ==
    LET body == IF tok # <<>> /\ Head(tok) = "+" THEN Tail(tok) ELSE tok
    IN  IF body = <<>> THEN None
        ELSE IF \E i \in 1..Len(body) : ~IsDigit(body[i]) THEN None
        ELSE Some(DigitsValue(body, 0))

(* The numeric level of a name, None when the last token is not a number   *)
(* or the name has no token.                                               *)
NameLevel(name) ==
    IF name = <<>> THEN None ELSE ParseU32(name[Len(name)])

RECURSIVE FormatU32(_)
FormatU32(n) ==
    IF n < 10 THEN <<DigitChars[n + 1]>>
    ELSE FormatU32(n \div 10) \o <<DigitChars[(n % 10) + 1]>>

BarrelName(n) == << <<"B", "a", "r", "r", "e", "l">>, FormatU32(n) >>

EmptyName == << <<"E", "m", "p", "t", "y">> >>

----------------------------------------------------------------------------
(* Template store                                                          *)

ObjectTemplate(name, threshold, min_distance, cols, always_active) ==
    [name |-> name, threshold |-> threshold, min_distance |-> min_distance,
     cols |-> cols, always_active |-> always_active]

----------------------------------------------------------------------------
(* Active-set selector                                                     *)

LastIndex(tpls) == SatSub(Len(tpls), 1)

(* The for loop of the full-range branch: i is the 0-based index.          *)
RECURSIVE ScanRange(_, _, _, _, _, _)
ScanRange(tpls, i, start, end, new_min, new_max) ==
    IF i >= Len(tpls) THEN <<start, end>>
    ELSE LET num == NameLevel(tpls[i + 1].name)
             hit == num # None /\ num[1] >= new_min /\ num[1] <= new_max
             start2 == IF hit /\ (i < start \/ start = 0) THEN i ELSE start
             end2 == IF hit /\ (i > end \/ end = LastIndex(tpls)) THEN i ELSE end
         IN  ScanRange(tpls, i + 1, start2, end2, new_min, new_max)

(* Mutant of ResetBranch: the range is reset, the flag is left cleared.    *)
ResetBranch_KeepsNarrowed(tpls) ==
    [active_range |-> <<0, LastIndex(tpls)>>, full_range |-> FALSE]

(* detected_numbers.is_empty(): back to the full range.                    *)
ResetBranch(tpls) ==
    [active_range |-> <<0, LastIndex(tpls)>>, full_range |-> TRUE]

(* Mutant of NarrowBranch: the flag is left set.                            *)
NarrowBranch_KeepsFlag(tpls, min_detected, max_detected) ==
    LET new_min == SatSub(min_detected, 5)
        new_max == max_detected + 8
        se == ScanRange(tpls, 0, 0, LastIndex(tpls), new_min, new_max)
    IN  [active_range |-> <<Min2(se[1], LastIndex(tpls)),
                            Min2(se[2], LastIndex(tpls))>>,
         full_range |-> TRUE]

(* self.full_range: switch to the targeted range found by the scan.        *)
NarrowBranch(tpls, min_detected, max_detected) ==
    LET new_min == SatSub(min_detected, 5)
        new_max == max_detected + 8
        se == ScanRange(tpls, 0, 0, LastIndex(tpls), new_min, new_max)
    IN  [active_range |-> <<Min2(se[1], LastIndex(tpls)),
                            Min2(se[2], LastIndex(tpls))>>,
         full_range |-> FALSE]

(* Mutant of ExpandBranch: the new bounds replace the current ones.        *)
ExpandBranch_Replaces(tpls, range, min_detected, max_detected) ==
    LET new_min == SatSub(min_detected, 3)
        new_max == max_detected + 3
    IN  [active_range |-> <<Min2(new_min, LastIndex(tpls)),
                            Min2(new_max, LastIndex(tpls))>>,
         full_range |-> FALSE]

(* Mutant of ExpandBranch: the bounds are not clamped to the last index.    *)
ExpandBranch_Unclamped(tpls, range, min_detected, max_detected) ==
    LET new_min == SatSub(min_detected, 3)
        new_max == max_detected + 3
    IN  [active_range |-> <<IF new_min < range[1] THEN new_min ELSE range[1],
                            IF new_max > range[2] THEN new_max ELSE range[2]>>,
         full_range |-> FALSE]

(* Mutant of ExpandBranch: the buffers of the full-range branch are used.  *)
ExpandBranch_WideBuffers(tpls, range, min_detected, max_detected) ==
    LET new_min == SatSub(min_detected, 5)
        new_max == max_detected + 8
    IN  [active_range |->
            <<Min2(IF new_min < range[1] THEN new_min ELSE range[1],
                   LastIndex(tpls)),
              Min2(IF new_max > range[2] THEN new_max ELSE range[2],
                   LastIndex(tpls))>>,
         full_range |-> FALSE]

(* Already targeted: the smooth expansion of the current range.            *)
ExpandBranch(tpls, range, min_detected, max_detected) ==
    LET current_start == range[1]
        current_end == range[2]
        new_min == SatSub(min_detected, 3)
        new_max == max_detected + 3
        new_start == IF new_min < current_start THEN new_min ELSE current_start
        new_end == IF new_max > current_end THEN new_max ELSE current_end
    IN  [active_range |-> <<Min2(new_start, LastIndex(tpls)),
                            Min2(new_end, LastIndex(tpls))>>,
         full_range |-> FALSE]

UpdateActiveRange(tpls, range, full, detected_numbers) ==
    IF detected_numbers = <<>> THEN ResetBranch(tpls)
    ELSE IF full
         THEN NarrowBranch(tpls, SeqMin(detected_numbers),
                           SeqMax(detected_numbers))
         ELSE ExpandBranch(tpls, range, SeqMin(detected_numbers),
                           SeqMax(detected_numbers))

(* First loop of get_active_templates: the always_active templates.        *)
RECURSIVE AlwaysActivePass(_, _, _)
AlwaysActivePass(tpls, i, result) ==
    IF i >= Len(tpls) THEN result
    ELSE AlwaysActivePass(tpls, i + 1,
            IF /\ tpls[i + 1].always_active
               /\ ~\E k \in 1..Len(result) :
                      tpls[result[k] + 1].name = tpls[i + 1].name
            THEN Append(result, i) ELSE result)

(* Second loop of get_active_templates: for i in start..=end.              *)
RECURSIVE RangePass(_, _, _, _)
RangePass(tpls, i, end, result) ==
    IF i > end THEN result
    ELSE RangePass(tpls, i + 1, end,
            IF /\ i < Len(tpls)
               /\ ~tpls[i + 1].always_active
               /\ ~\E k \in 1..Len(result) :
                      tpls[result[k] + 1].name = tpls[i + 1].name
            THEN Append(result, i) ELSE result)

(* Mutant of GetActiveTemplates: the range is listed without the test      *)
(* i < self.templates.len().                                               *)
GetActiveTemplates_Unchecked(tpls, range) ==
    AlwaysActivePass(tpls, 0, <<>>)
        \o [k \in 1..(range[2] - range[1] + 1) |-> range[1] + k - 1]

(* Mutant of GetActiveTemplates: the range is listed in store order, the   *)
(* always_active templates at their own places.                            *)
GetActiveTemplates_StoreOrder(tpls, range) ==
    LET S == {i \in range[1]..range[2] : i < Len(tpls)}
        f == CHOOSE g \in [1..Cardinality(S) -> S] :
                 \A i, j \in 1..Cardinality(S) : i < j => g[i] < g[j]
    IN  [k \in 1..Cardinality(S) |-> f[k]]

(* The list of active templates, as 0-based store indices (each Arc clone  *)
(* in the returned Vec points to the store entry of that index).           *)
GetActiveTemplates(tpls, range) ==
    RangePass(tpls, range[1], range[2], AlwaysActivePass(tpls, 0, <<>>))

----------------------------------------------------------------------------
(* Deduplicator: filter_close_detections                                   *)

DetectionResult(object_name, location, confidence) ==
    [object_name |-> object_name, location |-> location,
     confidence |-> confidence]

(* Mutant of InsertByConfidence: the comparison is the wrong way round.    *)
InsertByConfidence_Ascending(sorted, d) ==
    LET n == Cardinality({i \in 1..Len(sorted) :
                             sorted[i].confidence <= d.confidence})
    IN  SubSeq(sorted, 1, n) \o <<d>> \o SubSeq(sorted, n + 1, Len(sorted))

(* One insertion of the stable sort by descending confidence: d goes after *)
(* every element whose confidence is not smaller.                          *)
InsertByConfidence(sorted, d) ==
    LET n == Cardinality({i \in 1..Len(sorted) :
                             sorted[i].confidence >= d.confidence})
    IN  SubSeq(sorted, 1, n) \o <<d>> \o SubSeq(sorted, n + 1, Len(sorted))

(* results.sort_by(|a, b| b.confidence.partial_cmp(&a.confidence)): slice  *)
(* sort_by is stable, equal confidences keep their input order.            *)
RECURSIVE SortByConfidence(_)
SortByConfidence(rs) ==
    IF rs = <<>> THEN <<>>
    ELSE InsertByConfidence(SortByConfidence(SubSeq(rs, 1, Len(rs) - 1)),
                            rs[Len(rs)])

(* self.templates.iter().find(|t| t.name == name): the first match.        *)
FindTemplate(tpls, name) ==
    IF \E i \in 1..Len(tpls) : tpls[i].name = name
    THEN Some(tpls[CHOOSE i \in 1..Len(tpls) :
                      /\ tpls[i].name = name
                      /\ \A j \in 1..(i - 1) : tpls[j].name # name])
    ELSE None

(* Mutant of WithinDistance: the city-block distance.                      *)
WithinDistance_CityBlock(center, location, min_dist) ==
    LET dx == center[1] - location[1]
        dy == center[2] - location[2]
        abs(v) == IF v < 0 THEN 0 - v ELSE v
    IN  abs(dx) + abs(dy) < min_dist

(* (dx * dx + dy * dy).sqrt() < min_dist, for min_dist >= 0.               *)
WithinDistance(center, location, min_dist) ==
    LET dx == center[1] - location[1]
        dy == center[2] - location[2]
    IN  dx * dx + dy * dy < min_dist * min_dist

TooClose(occupied, location) ==
    \E k \in 1..Len(occupied) :
        WithinDistance(occupied[k][1], location, occupied[k][2])

(* Mutant of FilterLoop: a result of an unknown template is not returned   *)
(* but its location is recorded as occupied, with distance 2.              *)
RECURSIVE FilterLoop_OccupiesUnknown(_, _, _, _)
FilterLoop_OccupiesUnknown(tpls, sorted, i, st) ==
    IF i > Len(sorted) THEN st.filtered
    ELSE LET result == sorted[i]
             template == FindTemplate(tpls, result.object_name)
         IN  IF TooClose(st.occupied, result.location)
             THEN FilterLoop_OccupiesUnknown(tpls, sorted, i + 1, st)
             ELSE FilterLoop_OccupiesUnknown(tpls, sorted, i + 1,
                     [occupied |-> Append(st.occupied,
                                     <<result.location,
                                       IF template = None THEN 2
                                       ELSE template[1].min_distance>>),
                      filtered |-> IF template = None THEN st.filtered
                                   ELSE Append(st.filtered, result)])

(* Mutant of FilterLoop: a result is compared with the accepted ones at    *)
(* its own template's min_distance.                                        *)
RECURSIVE FilterLoop_OwnDistance(_, _, _, _)
FilterLoop_OwnDistance(tpls, sorted, i, st) ==
    IF i > Len(sorted) THEN st.filtered
    ELSE LET result == sorted[i]
             template == FindTemplate(tpls, result.object_name)
         IN  IF /\ template # None
                /\ ~\E k \in 1..Len(st.occupied) :
                       WithinDistance(st.occupied[k][1], result.location,
                                      template[1].min_distance)
             THEN FilterLoop_OwnDistance(tpls, sorted, i + 1,
                     [occupied |-> Append(st.occupied,
                                     <<result.location,
                                       template[1].min_distance>>),
                      filtered |-> Append(st.filtered, result)])
             ELSE FilterLoop_OwnDistance(tpls, sorted, i + 1, st)

(* The for loop over the sorted results: st = [filtered, occupied].        *)
RECURSIVE FilterLoop(_, _, _, _)
FilterLoop(tpls, sorted, i, st) ==
    IF i > Len(sorted) THEN st.filtered
    ELSE LET result == sorted[i]
             template == FindTemplate(tpls, result.object_name)
         IN  IF ~TooClose(st.occupied, result.location) /\ template # None
             THEN FilterLoop(tpls, sorted, i + 1,
                     [occupied |-> Append(st.occupied,
                                     <<result.location,
                                       template[1].min_distance>>),
                      filtered |-> Append(st.filtered, result)])
             ELSE FilterLoop(tpls, sorted, i + 1, st)

FilterCloseDetections(tpls, rs) ==
    FilterLoop(tpls, SortByConfidence(rs), 1,
               [occupied |-> <<>>, filtered |-> <<>>])

----------------------------------------------------------------------------
(* Matcher: the per-template closure of detect_objects_optimized           *)

(* base_scale_factor = ScaleNum / ScaleDen.                                *)
ScaleNum == 1

ScaleDen == 2

(* (v as f64 / base_scale_factor) as i32: the cast truncates towards zero. *)
ScaleBack(v) ==
    IF v >= 0 THEN (v * ScaleDen) \div ScaleNum
    ELSE 0 - (((0 - v) * ScaleDen) \div ScaleNum)

(* A response surface is one row of scores, result_mat[x] at x = 0..W-1,   *)
(* or Failed when resize, match_template, threshold or convert_to failed.  *)
Failed == <<"failed">>

(* threshold(.., THRESH_BINARY): the mask is set where score > threshold.  *)
ThresholdMask(surface, threshold) ==
    [x \in 1..Len(surface) |-> surface[x] > threshold]

(* min_max_loc under the mask: the maximum and its first position, and     *)
(* (0, -1) when the mask is empty.                                         *)
MinMaxLoc(result_mat, mask) ==
    LET masked == {x \in 1..Len(result_mat) : mask[x]}
    IN  IF masked = {} THEN [max_val |-> 0, max_loc |-> -1]
        ELSE LET best == CHOOSE x \in masked :
                            /\ \A y \in masked : result_mat[y] <= result_mat[x]
                            /\ \A y \in masked :
                                   result_mat[y] = result_mat[x] => x <= y
             IN  [max_val |-> result_mat[best], max_loc |-> best - 1]

(* imgproc::rectangle(.., FILLED) with Rect(x - cols / 2, .., cols, ..).   *)
InRect(x, max_loc, cols) ==
    LET x0 == max_loc - (cols \div 2)
    IN  x0 <= x /\ x < x0 + cols

(* The extraction loop; it ends when the masked maximum is below the       *)
(* threshold (the thresholds of this model are positive).                  *)
RECURSIVE MatchLoop(_, _, _, _)
MatchLoop(template, result_mat, mask, local_results) ==
    LET m == MinMaxLoc(result_mat, mask)
    IN  IF m.max_val < template.threshold THEN local_results
        ELSE MatchLoop(template,
                [x \in 1..Len(result_mat) |->
                    IF InRect(x - 1, m.max_loc, template.cols)
                    THEN 0 ELSE result_mat[x]],
                [x \in 1..Len(mask) |->
                    IF InRect(x - 1, m.max_loc, template.cols)
                    THEN FALSE ELSE mask[x]],
                Append(local_results,
                       DetectionResult(template.name,
                                       <<ScaleBack(m.max_loc), ScaleBack(0)>>,
                                       m.max_val)))

MatchTemplate(template, surface) ==
    IF surface = Failed THEN <<>>
    ELSE MatchLoop(template, surface,
                   ThresholdMask(surface, template.threshold), <<>>)

----------------------------------------------------------------------------
(* Detection pipeline: detect_objects_optimized                            *)

RECURSIVE Flatten(_)
Flatten(lists) ==
    IF lists = <<>> THEN <<>> ELSE Head(lists) \o Flatten(Tail(lists))

(* Mutant of CollectResults: the Vec is filled in completion order.        *)
CollectResults_CompletionOrder(tpls, active, frame, order) ==
    [k \in 1..Len(active) |->
        MatchTemplate(tpls[active[order[k]] + 1], frame[order[k]])]

(* Mutant of CollectResults: one failed template empties the whole frame.  *)
CollectResults_FailFast(tpls, active, frame, order) ==
    [k \in 1..Len(active) |->
        IF \E j \in 1..Len(frame) : frame[j] = Failed THEN <<>>
        ELSE MatchTemplate(tpls[active[k] + 1], frame[k])]

(* active_templates.par_iter().map(..).collect(): the workers complete in  *)
(* the order `order`; collect() puts each result at its template's place.  *)
CollectResults(tpls, active, frame, order) ==
    [k \in 1..Len(active) |-> MatchTemplate(tpls[active[k] + 1], frame[k])]

(* Mutant of DetectedNumbers: a name without number counts as level 0.     *)
RECURSIVE DetectedNumbers_DefaultZero(_)
DetectedNumbers_DefaultZero(rs) ==
    IF rs = <<>> THEN <<>>
    ELSE LET num == NameLevel(Head(rs).object_name)
         IN  (IF num = None THEN <<0>> ELSE num)
             \o DetectedNumbers_DefaultZero(Tail(rs))

(* filter_map(|d| d.object_name.split_whitespace().last()                  *)
(*                 .and_then(|s| s.parse().ok())).collect()                *)
RECURSIVE DetectedNumbers(_)
DetectedNumbers(rs) ==
    IF rs = <<>> THEN <<>>
    ELSE NameLevel(Head(rs).object_name) \o DetectedNumbers(Tail(rs))

(* One call on the prepared frame: frame[k] is the response surface of the *)
(* k-th active template, order the completion order of the workers.        *)
DetectObjectsOptimized(tpls, range, full, frame, order) ==
    LET active_templates == GetActiveTemplates(tpls, range)
        all_results == Flatten(CollectResults(tpls, active_templates,
                                              frame, order))
        detected_numbers == DetectedNumbers(all_results)
        sel == UpdateActiveRange(tpls, range, full, detected_numbers)
    IN  [all_results |-> all_results,
         detected_numbers |-> detected_numbers,
         active_range |-> sel.active_range,
         full_range |-> sel.full_range,
         returned |-> FilterCloseDetections(tpls, all_results)]

----------------------------------------------------------------------------
(* Inputs of the selector specification                                    *)

(* The templates add_template is called with: three barrel levels, and    *)
(* "Empty" as an always_active template (twice, the two differing in their *)
(* min_distance) and as an ordinary one.                                   *)
SelectorInputs ==
    {ObjectTemplate(BarrelName(n), 1, 2, 1, FALSE) : n \in {1, 2, 20}}
    \cup {ObjectTemplate(EmptyName, 1, 2, 1, a) : a \in BOOLEAN}
    \cup {ObjectTemplate(EmptyName, 1, 3, 1, TRUE)}

DetectedLevels == {1, 2, 20}

DetectedInputs ==
    {<<>>} \cup {<<a>> : a \in DetectedLevels}
           \cup {<<a, b>> : a \in DetectedLevels, b \in DetectedLevels}

----------------------------------------------------------------------------
(* Operations                                                              *)

NoTwin == [called |-> FALSE]

(* No worker is running, no call is in progress.                           *)
Idle == [pc |-> "idle"]

Init ==
    /\ templates = <<>>
    /\ active_range = <<0, 0>>
    /\ full_range = TRUE
    /\ last_op = "new"
    /\ last_detected = <<>>
    /\ pre_range = <<0, 0>>
    /\ pre_full = TRUE
    /\ results = <<>>
    /\ returned = <<>>
    /\ twin = NoTwin
    /\ surfaces = <<>>
    /\ matcher = Idle
    /\ workers = Idle
    /\ proc = Idle

History(op, detected) ==
    /\ last_op' = op
    /\ last_detected' = detected
    /\ pre_range' = active_range
    /\ pre_full' = full_range

(* Mutant of AddTemplate: the new template is put at the front.            *)
AddTemplate_Prepends(t) ==
    /\ Len(templates) < MaxTemplates
    /\ templates' = <<t>> \o templates
    /\ active_range' = <<0, Len(templates') - 1>>
    /\ full_range' = TRUE
    /\ UNCHANGED <<results, returned, twin, surfaces, matcher, workers, proc>>
    /\ History("add_template", <<>>)

(* add_template when ObjectTemplate::new succeeds.                         *)
AddTemplate(t) ==
    /\ Len(templates) < MaxTemplates
    /\ templates' = Append(templates, t)
    /\ active_range' = <<0, Len(templates') - 1>>
    /\ full_range' = TRUE
    /\ UNCHANGED <<results, returned, twin, surfaces, matcher, workers, proc>>
    /\ History("add_template", <<>>)

(* Mutant of AddTemplateErr: the range is reset although the call failed.  *)
AddTemplateErr_Resets ==
    /\ active_range' = <<0, LastIndex(templates)>>
    /\ full_range' = TRUE
    /\ UNCHANGED <<templates, results, returned, twin, surfaces, matcher, workers, proc>>
    /\ History("add_template_err", <<>>)

(* add_template when imread or cvt_color fails: the ? returns the error.   *)
AddTemplateErr ==
    /\ UNCHANGED <<templates, active_range, full_range, results, returned,
                   twin, surfaces, matcher, workers, proc>>
    /\ History("add_template_err", <<>>)

UpdateActiveRangeCall(detected_numbers) ==
    LET r == UpdateActiveRange(templates, active_range, full_range,
                               detected_numbers)
    IN  /\ active_range' = r.active_range
        /\ full_range' = r.full_range
        /\ UNCHANGED <<templates, results, returned, twin, surfaces, matcher, workers, proc>>
        /\ History("update_active_range", detected_numbers)

Next ==
    \/ \E t \in SelectorInputs : AddTemplate(t)
    \/ AddTemplateErr
    \/ \E d \in DetectedInputs : UpdateActiveRangeCall(d)

Spec == Init /\ [][Next]_vars

----------------------------------------------------------------------------
(* The selector over a store in ascending level order without gaps         *)

(* add_template called for "Barrel 1" .. "Barrel LadderSize", in order.    *)
LadderStore ==
    [i \in 1..LadderSize |-> ObjectTemplate(BarrelName(i), 1, 2, 1, FALSE)]

(* Detected levels of one frame: none, or the levels of one or two of the  *)
(* stored barrels.                                                         *)
LadderDetected ==
    {<<>>} \cup {<<a>> : a \in 1..LadderSize}
           \cup {<<a, b>> : a \in 1..LadderSize, b \in 1..LadderSize}

LadderInit ==
    /\ templates = LadderStore
    /\ active_range = <<0, Len(templates) - 1>>
    /\ full_range = TRUE
    /\ last_op = "add_template"
    /\ last_detected = <<>>
    /\ pre_range = <<0, Len(templates) - 2>>
    /\ pre_full = TRUE
    /\ results = <<>>
    /\ returned = <<>>
    /\ twin = NoTwin
    /\ surfaces = <<>>
    /\ matcher = Idle
    /\ workers = Idle
    /\ proc = Idle

LadderNext == \E d \in LadderDetected : UpdateActiveRangeCall(d)

SpecLadder == LadderInit /\ [][LadderNext]_vars

----------------------------------------------------------------------------
(* The deduplicator as a function of the store and its input list          *)

(* Stores built by add_template: two barrel templates, with different and  *)
(* with equal min_distance.                                                *)
FilterStores ==
    {<<ObjectTemplate(BarrelName(1), 1, 2, 1, FALSE),
       ObjectTemplate(BarrelName(2), 1, d, 1, FALSE)>> : d \in {2, 4}}

(* Detections of the two barrels and of a name that is not in the store,   *)
(* at three locations whose distances are 1, 3 and sqrt(10).               *)
FilterDetections ==
    {DetectionResult(n, l, c) :
        n \in {BarrelName(1), BarrelName(2), EmptyName},
        l \in {<<0, 0>>, <<0, 1>>, <<3, 0>>},
        c \in {8, 9}}

FilterInputs ==
    UNION {[1..n -> FilterDetections] : n \in 0..MaxDetections}

(* The caller holds a store and an input list; the call is made once.      *)
FilterInit ==
    /\ templates \in FilterStores
    /\ active_range = <<0, Len(templates) - 1>>
    /\ full_range = TRUE
    /\ last_op = "add_template"
    /\ last_detected = <<>>
    /\ pre_range = <<0, Len(templates) - 2>>
    /\ pre_full = TRUE
    /\ results \in FilterInputs
    /\ returned = <<>>
    /\ twin = NoTwin
    /\ surfaces = <<>>
    /\ matcher = Idle
    /\ workers = Idle
    /\ proc = Idle

FilterCloseDetectionsCall ==
    /\ last_op # "filter_close_detections"
    /\ returned' = FilterCloseDetections(templates, results)
    /\ UNCHANGED <<templates, active_range, full_range, results, twin,
                   surfaces, matcher, workers, proc>>
    /\ History("filter_close_detections", <<>>)

FilterNext == FilterCloseDetectionsCall

SpecFilter == FilterInit /\ [][FilterNext]_vars

----------------------------------------------------------------------------
(* The detect pipeline over frames                                         *)

(* Stores built by add_template: the barrels and an always_active "Empty", *)
(* in both orders; "Barrel 2" has a footprint of two columns.              *)
DetectStores ==
    LET b1 == ObjectTemplate(BarrelName(1), 1, 2, 1, FALSE)
        b2 == ObjectTemplate(BarrelName(2), 1, 2, 2, FALSE)
        e  == ObjectTemplate(EmptyName, 1, 2, 1, TRUE)
    IN  {<<b1, b2, e>>, <<e, b1, b2>>}

DetectSurfaces == {<<0, 0>>, <<3, 0>>, <<2, 3>>, Failed}

IndexPermutations(n) ==
    {p \in [1..n -> 1..n] : \A i, j \in 1..n : p[i] = p[j] => i = j}

DetectInit ==
    /\ templates \in DetectStores
    /\ active_range = <<0, Len(templates) - 1>>
    /\ full_range = TRUE
    /\ last_op = "add_template"
    /\ last_detected = <<>>
    /\ pre_range = <<0, Len(templates) - 2>>
    /\ pre_full = TRUE
    /\ results = <<>>
    /\ returned = <<>>
    /\ twin = NoTwin
    /\ surfaces = <<>>
    /\ matcher = Idle
    /\ workers = Idle
    /\ proc = Idle

(* detect_objects_optimized returning Ok, its workers completing in the   *)
(* order `order`.  The same call is made a second time on a detector in    *)
(* the same state (twin), its workers completing in index order.           *)
Detect(frame, order) ==
    \E out \in {DetectObjectsOptimized(templates, active_range, full_range,
                                        frame, order)} :
    \E again \in {DetectObjectsOptimized(templates, active_range, full_range,
                                          frame, [k \in 1..Len(frame) |-> k])} :
        /\ active_range' = out.active_range
        /\ full_range' = out.full_range
        /\ results' = out.all_results
        /\ returned' = out.returned
        /\ twin' = [called |-> TRUE,
                    reordered |-> \E k \in 1..Len(frame) : order[k] # k,
                    returned |-> again.returned,
                    active_range |-> again.active_range,
                    full_range |-> again.full_range]
        /\ surfaces' = frame
        /\ UNCHANGED <<templates, matcher, workers, proc>>
        /\ History("detect", out.detected_numbers)

(* detect_objects_optimized returning Err: cvt_color or resize of the      *)
(* frame failed, before any template was matched.                          *)
DetectErr ==
    /\ UNCHANGED <<templates, active_range, full_range, results, returned,
                   twin, surfaces, matcher, workers, proc>>
    /\ History("detect_err", <<>>)

DetectNext ==
    \/ \E frame \in [1..Len(GetActiveTemplates(templates, active_range))
                        -> DetectSurfaces] :
          \E order \in IndexPermutations(Len(frame)) : Detect(frame, order)
    \/ DetectErr

SpecDetect == DetectInit /\ [][DetectNext]_vars

----------------------------------------------------------------------------
(* One detect call with its workers completing one by one                  *)

(* Mutant of StoreResult: a worker puts its result in the first free place *)
(* of the collected Vec.                                                   *)
StoreResult_FirstFree(slots, k, local_results) ==
    LET free == CHOOSE i \in 1..Len(slots) :
                    /\ slots[i] = None
                    /\ \A j \in 1..(i - 1) : slots[j] # None
    IN  [slots EXCEPT ![free] = Some(local_results)]

(* collect() of the indexed parallel iterator: the result of the k-th      *)
(* closure becomes the k-th element of all_results.                        *)
StoreResult(slots, k, local_results) ==
    [slots EXCEPT ![k] = Some(local_results)]

(* get_active_templates() and the start of par_iter(): the active set is   *)
(* taken once, every worker is pending.                                    *)
DetectBegin(frame) ==
    /\ workers.pc \in {"idle", "done"}
    /\ workers' = [pc |-> "running",
                   active |-> GetActiveTemplates(templates, active_range),
                   slots |-> [k \in 1..Len(frame) |-> None],
                   order |-> <<>>]
    /\ surfaces' = frame
    /\ UNCHANGED <<templates, active_range, full_range, last_op,
                   last_detected, pre_range, pre_full, results, returned,
                   twin, matcher, proc>>

(* The closure of the k-th active template returns.                        *)
WorkerFinish(k) ==
    /\ workers.pc = "running"
    /\ workers.slots[k] = None
    /\ workers' =
          [workers EXCEPT
              !.slots = StoreResult(workers.slots, k,
                           MatchTemplate(templates[workers.active[k] + 1],
                                         surfaces[k])),
              !.order = Append(workers.order, k)]
    /\ UNCHANGED <<templates, active_range, full_range, last_op,
                   last_detected, pre_range, pre_full, results, returned,
                   twin, surfaces, matcher, proc>>

(* After collect(): detected_numbers, update_active_range and              *)
(* filter_close_detections on the collected results.                       *)
DetectEnd ==
    /\ workers.pc = "running"
    /\ \A k \in 1..Len(workers.slots) : workers.slots[k] # None
    /\ LET all_results ==
               Flatten([k \in 1..Len(workers.slots) |-> workers.slots[k][1]])
           detected_numbers == DetectedNumbers(all_results)
           sel == UpdateActiveRange(templates, active_range, full_range,
                                    detected_numbers)
       IN  /\ results' = all_results
           /\ returned' = FilterCloseDetections(templates, all_results)
           /\ active_range' = sel.active_range
           /\ full_range' = sel.full_range
           /\ History("detect", detected_numbers)
    /\ workers' = [workers EXCEPT !.pc = "done"]
    /\ UNCHANGED <<templates, twin, surfaces, matcher, proc>>

WorkersNext ==
    \/ \E frame \in [1..Len(GetActiveTemplates(templates, active_range))
                        -> DetectSurfaces] : DetectBegin(frame)
    \/ \E k \in 1..Len(surfaces) : WorkerFinish(k)
    \/ DetectEnd

SpecWorkers == DetectInit /\ [][WorkersNext]_vars

----------------------------------------------------------------------------
(* One per-template worker of detect_objects_optimized, step by step       *)

(* Templates with threshold 0 (the smallest permitted) and 1, and with a   *)
(* footprint of one and of two columns.                                    *)
MatcherTemplates ==
    {ObjectTemplate(BarrelName(1), th, 2, c, FALSE) :
        th \in {0, 1}, c \in {1, 2}}

(* Correlation scores below, at and above the thresholds.                  *)
MatcherScores == {-1, 0, 1, 2}

MatcherSurfaces == [1..SurfaceWidth -> MatcherScores] \cup {Failed}

MatcherInit ==
    /\ templates \in {<<t>> : t \in MatcherTemplates}
    /\ active_range = <<0, 0>>
    /\ full_range = TRUE
    /\ last_op = "add_template"
    /\ last_detected = <<>>
    /\ pre_range = <<0, 0>>
    /\ pre_full = TRUE
    /\ results = <<>>
    /\ returned = <<>>
    /\ twin = NoTwin
    /\ surfaces \in {<<s>> : s \in MatcherSurfaces}
    /\ matcher = [pc |-> "start", result_mat |-> <<>>, mask |-> <<>>,
                  local_results |-> <<>>]
    /\ workers = Idle
    /\ proc = Idle

(* From the start of the closure to the loop: a failed resize,             *)
(* match_template, threshold or convert_to returns Vec::new().             *)
MatcherPrepare ==
    /\ matcher.pc = "start"
    /\ matcher' =
          IF surfaces[1] = Failed
          THEN [matcher EXCEPT !.pc = "done"]
          ELSE [pc |-> "loop", result_mat |-> surfaces[1],
                mask |-> ThresholdMask(surfaces[1], templates[1].threshold),
                local_results |-> <<>>]
    /\ UNCHANGED <<templates, active_range, full_range, last_op,
                   last_detected, pre_range, pre_full, results, returned,
                   twin, surfaces, workers, proc>>

(* One iteration of the loop: min_max_loc, the threshold test, the push    *)
(* and the two rectangles.                                                 *)
MatcherIterate ==
    /\ matcher.pc = "loop"
    /\ Len(matcher.local_results) < MaxEmitted
    /\ LET template == templates[1]
           m == MinMaxLoc(matcher.result_mat, matcher.mask)
       IN  matcher' =
             IF m.max_val < template.threshold
             THEN [matcher EXCEPT !.pc = "done"]
             ELSE [pc |-> "loop",
                   result_mat |->
                      [x \in 1..Len(matcher.result_mat) |->
                          IF InRect(x - 1, m.max_loc, template.cols)
                          THEN 0 ELSE matcher.result_mat[x]],
                   mask |->
                      [x \in 1..Len(matcher.mask) |->
                          IF InRect(x - 1, m.max_loc, template.cols)
                          THEN FALSE ELSE matcher.mask[x]],
                   local_results |->
                      Append(matcher.local_results,
                             DetectionResult(template.name,
                                 <<ScaleBack(m.max_loc), ScaleBack(0)>>,
                                 m.max_val))]
    /\ UNCHANGED <<templates, active_range, full_range, last_op,
                   last_detected, pre_range, pre_full, results, returned,
                   twin, surfaces, workers, proc>>

(* min_max_loc(..).is_err(): break.                                        *)
MatcherMinMaxErr ==
    /\ matcher.pc = "loop"
    /\ matcher' = [matcher EXCEPT !.pc = "done"]
    /\ UNCHANGED <<templates, active_range, full_range, last_op,
                   last_detected, pre_range, pre_full, results, returned,
                   twin, surfaces, workers, proc>>

MatcherNext == MatcherPrepare \/ MatcherIterate \/ MatcherMinMaxErr

SpecMatcher == MatcherInit /\ [][MatcherNext]_vars

----------------------------------------------------------------------------
(* processors.rs: process_barrels and process_magnets_cloud                *)

(* split_whitespace().last().unwrap_or("0").parse().unwrap_or(0)           *)
LevelOrZero(name) ==
    IF NameLevel(name) = None THEN 0 ELSE NameLevel(name)[1]

HasTemplate(tpls, name) == \E i \in 1..Len(tpls) : tpls[i].name = name

(* The partners the inner loop over j accepts for barrel i (0-based).      *)
MergePartners(barrels, tpls, i, used) ==
    {j \in (i + 1)..(Len(barrels) - 1) :
        /\ j \notin used
        /\ barrels[i + 1].object_name = barrels[j + 1].object_name
        /\ HasTemplate(tpls,
               BarrelName(LevelOrZero(barrels[i + 1].object_name) + 1))}

(* Mutant of PlanLoop: used_indices is not consulted.                      *)
RECURSIVE PlanLoop_IgnoresUsed(_, _, _, _, _)
PlanLoop_IgnoresUsed(barrels, tpls, i, merges, used) ==
    IF i >= Len(barrels) THEN merges
    ELSE LET partners == MergePartners(barrels, tpls, i, {})
         IN  IF partners = {}
             THEN PlanLoop_IgnoresUsed(barrels, tpls, i + 1, merges, used)
             ELSE LET j == CHOOSE x \in partners : \A y \in partners : x <= y
                  IN  PlanLoop_IgnoresUsed(barrels, tpls, i + 1,
                         Append(merges,
                            <<i, j,
                              LevelOrZero(barrels[i + 1].object_name) + 1>>),
                         used \cup {i, j})

(* The planning loops of one round: for i, for j, with used_indices.       *)
RECURSIVE PlanLoop(_, _, _, _, _)
PlanLoop(barrels, tpls, i, merges, used) ==
    IF i >= Len(barrels) THEN merges
    ELSE IF i \in used THEN PlanLoop(barrels, tpls, i + 1, merges, used)
    ELSE LET partners == MergePartners(barrels, tpls, i, used)
         IN  IF partners = {}
             THEN PlanLoop(barrels, tpls, i + 1, merges, used)
             ELSE LET j == CHOOSE x \in partners : \A y \in partners : x <= y
                  IN  PlanLoop(barrels, tpls, i + 1,
                         Append(merges,
                            <<i, j,
                              LevelOrZero(barrels[i + 1].object_name) + 1>>),
                         used \cup {i, j})

(* b.0.cmp(&a.0).then(b.1.cmp(&a.1)): m comes before n.                    *)
MergeBefore(m, n) == m[1] > n[1] \/ (m[1] = n[1] /\ m[2] > n[2])

(* merges.sort_by(..): descending by (i, j).                               *)
RECURSIVE SortMerges(_)
SortMerges(merges) ==
    IF merges = <<>> THEN <<>>
    ELSE LET rest == SortMerges(SubSeq(merges, 1, Len(merges) - 1))
             m == merges[Len(merges)]
             n == Cardinality({x \in 1..Len(rest) : ~MergeBefore(m, rest[x])})
         IN  SubSeq(rest, 1, n) \o <<m>> \o SubSeq(rest, n + 1, Len(rest))

PlanMerges(barrels, tpls) == SortMerges(PlanLoop(barrels, tpls, 0, <<>>, {}))

(* The barrels that took part in no merge, in their order.                 *)
RECURSIVE Unmerged(_, _, _)
Unmerged(barrels, removed, index) ==
    IF index >= Len(barrels) THEN <<>>
    ELSE (IF index \in removed THEN <<>> ELSE <<barrels[index + 1]>>)
         \o Unmerged(barrels, removed, index + 1)

(* Mutant of Rebuild: the merged barrels are kept as well.                 *)
Rebuild_KeepsMerged(barrels, merges, new_barrels) ==
    new_barrels \o barrels

(* The end of a round: the new barrels, then the unmerged ones.            *)
Rebuild(barrels, merges, new_barrels) ==
    new_barrels
        \o Unmerged(barrels,
               UNION {{merges[k][1], merges[k][2]} : k \in 1..Len(merges)}, 0)

(* The stores of a run: barrels of three levels, without and with "Empty". *)
ProcessorStores ==
    LET b(n) == ObjectTemplate(BarrelName(n), 1, 2, 1, FALSE)
    IN  {<<b(1), b(2), b(3)>>,
         <<b(1), b(2), b(3), ObjectTemplate(EmptyName, 1, 2, 1, TRUE)>>}

(* The detections passed in: the p-th one is located at (p, 0).            *)
BarrelInputs ==
    LET names == {BarrelName(1), BarrelName(2), BarrelName(3), EmptyName}
    IN  UNION {{[p \in 1..n |-> DetectionResult(f[p], <<p, 0>>, 1)] :
                   f \in [1..n -> names]} : n \in 0..MaxBarrels}

ProcessorsInit ==
    /\ templates \in ProcessorStores
    /\ active_range = <<0, Len(templates) - 1>>
    /\ full_range = TRUE
    /\ last_op = "add_template"
    /\ last_detected = <<>>
    /\ pre_range = <<0, Len(templates) - 2>>
    /\ pre_full = TRUE
    /\ results = <<>>
    /\ returned = <<>>
    /\ twin = NoTwin
    /\ surfaces = <<>>
    /\ matcher = Idle
    /\ workers = Idle
    /\ proc \in
          {[fn |-> "process_barrels", pc |-> "start", barrels |-> bs,
            merges |-> <<>>, k |-> 0, new_barrels |-> <<>>, rows |-> 0,
            button |-> "up", result |-> "none"] : bs \in BarrelInputs}
          \cup
          {[fn |-> "process_magnets_cloud", pc |-> "start", barrels |-> <<>>,
            merges |-> <<>>, k |-> 0, new_barrels |-> <<>>, rows |-> n,
            button |-> "up", result |-> "none"] : n \in 0..MaxRows}

ProcFrame ==
    UNCHANGED <<templates, active_range, full_range, last_op, last_detected,
                pre_range, pre_full, results, returned, twin, surfaces,
                matcher, workers>>

(* The function returns: Ok(..) or, by a ?, Err(..).                       *)
Returns(res) == proc' = [proc EXCEPT !.pc = "returned", !.result = res]

Goes(pc) == proc' = [proc EXCEPT !.pc = pc]

(* xdotool getmouselocation, output()? and String::from_utf8(..)?          *)
ProcStart(ok) ==
    /\ proc.pc = "start"
    /\ IF ~ok THEN Returns("err")
       ELSE IF proc.fn = "process_barrels" THEN Goes("plan")
       ELSE Goes("move_start")
    /\ ProcFrame

(* while merged: the planning loops; no merge found ends the function.     *)
BarrelsPlan ==
    /\ proc.fn = "process_barrels" /\ proc.pc = "plan"
    /\ LET merges == PlanMerges(proc.barrels, templates)
       IN  IF merges = <<>> THEN Returns("ok")
           ELSE proc' = [proc EXCEPT !.pc = "lookup", !.merges = merges,
                                     !.k = 1, !.new_barrels = <<>>]
    /\ ProcFrame

(* from_template and to_template: find(..).ok_or_else(..)?                 *)
BarrelsLookup ==
    /\ proc.fn = "process_barrels" /\ proc.pc = "lookup"
    /\ LET m == proc.merges[proc.k]
       IN  IF /\ HasTemplate(templates, proc.barrels[m[1] + 1].object_name)
              /\ HasTemplate(templates, proc.barrels[m[2] + 1].object_name)
           THEN Goes("move_from") ELSE Returns("err")
    /\ ProcFrame

(* human_like_move(abs_from_x, abs_from_y, ..)?                            *)
BarrelsMoveFrom(ok) ==
    /\ proc.fn = "process_barrels" /\ proc.pc = "move_from"
    /\ IF ok THEN Goes("press") ELSE Returns("err")
    /\ ProcFrame

(* xdotool mousedown 1, status()?: an Err means the command did not run.   *)
BarrelsPress(ok) ==
    /\ proc.fn = "process_barrels" /\ proc.pc = "press"
    /\ IF ok THEN proc' = [proc EXCEPT !.pc = "drag", !.button = "down"]
       ELSE Returns("err")
    /\ ProcFrame

(* human_like_move(abs_to_x, abs_to_y, ..)?                                *)
BarrelsDrag(ok) ==
    /\ proc.fn = "process_barrels" /\ proc.pc = "drag"
    /\ IF ok THEN Goes("release") ELSE Returns("err")
    /\ ProcFrame

(* xdotool mouseup 1, status()?, the push of the new barrel, and after the *)
(* last merge of the round the rebuilding of the list.                     *)
BarrelsRelease(ok) ==
    /\ proc.fn = "process_barrels" /\ proc.pc = "release"
    /\ IF ~ok THEN Returns("err")
       ELSE LET m == proc.merges[proc.k]
                to == proc.barrels[m[2] + 1]
                new_barrels ==
                    Append(proc.new_barrels,
                           DetectionResult(BarrelName(m[3]), to.location,
                                           to.confidence))
            IN  IF proc.k < Len(proc.merges)
                THEN proc' = [proc EXCEPT !.pc = "lookup", !.button = "up",
                                          !.k = proc.k + 1,
                                          !.new_barrels = new_barrels]
                ELSE proc' = [proc EXCEPT
                                 !.pc = "plan", !.button = "up",
                                 !.barrels = Rebuild(proc.barrels, proc.merges,
                                                     new_barrels),
                                 !.new_barrels = new_barrels]
    /\ ProcFrame

(* human_like_move(left_x, current_y, ..)? to the start of the route.      *)
MagnetsMoveStart(ok) ==
    /\ proc.fn = "process_magnets_cloud" /\ proc.pc = "move_start"
    /\ IF ok THEN Goes("press") ELSE Returns("err")
    /\ ProcFrame

(* xdotool mousedown 1, status()?                                          *)
MagnetsPress(ok) ==
    /\ proc.fn = "process_magnets_cloud" /\ proc.pc = "press"
    /\ IF ok THEN proc' = [proc EXCEPT !.pc = "rows", !.button = "down"]
       ELSE Returns("err")
    /\ ProcFrame

(* One iteration of the zigzag loop: its moves each end in ?.              *)
MagnetsRow(ok) ==
    /\ proc.fn = "process_magnets_cloud" /\ proc.pc = "rows"
    /\ proc.rows > 0
    /\ IF ok THEN proc' = [proc EXCEPT !.rows = proc.rows - 1]
       ELSE Returns("err")
    /\ ProcFrame

(* After the loop: xdotool mouseup 1, status()?                            *)
MagnetsRelease(ok) ==
    /\ proc.fn = "process_magnets_cloud" /\ proc.pc = "rows"
    /\ proc.rows = 0
    /\ IF ok THEN proc' = [proc EXCEPT !.pc = "move_back", !.button = "up"]
       ELSE Returns("err")
    /\ ProcFrame

(* human_like_move(original_x, original_y, ..)? and Ok(()).                *)
MagnetsMoveBack(ok) ==
    /\ proc.fn = "process_magnets_cloud" /\ proc.pc = "move_back"
    /\ IF ok THEN Returns("ok") ELSE Returns("err")
    /\ ProcFrame

ProcessorsNext ==
    \/ \E ok \in BOOLEAN : ProcStart(ok)
    \/ BarrelsPlan
    \/ BarrelsLookup
    \/ \E ok \in BOOLEAN : BarrelsMoveFrom(ok)
    \/ \E ok \in BOOLEAN : BarrelsPress(ok)
    \/ \E ok \in BOOLEAN : BarrelsDrag(ok)
    \/ \E ok \in BOOLEAN : BarrelsRelease(ok)
    \/ \E ok \in BOOLEAN : MagnetsMoveStart(ok)
    \/ \E ok \in BOOLEAN : MagnetsPress(ok)
    \/ \E ok \in BOOLEAN : MagnetsRow(ok)
    \/ \E ok \in BOOLEAN : MagnetsRelease(ok)
    \/ \E ok \in BOOLEAN : MagnetsMoveBack(ok)

SpecProcessors == ProcessorsInit /\ [][ProcessorsNext]_vars

----------------------------------------------------------------------------
(* Properties of the active-set selector                                   *)

(* 0-based store indices whose name has a numeric level in [lo, hi].       *)
LevelIndices(tpls, lo, hi) ==
    {i \in 0..(Len(tpls) - 1) :
        LET num == NameLevel(tpls[i + 1].name)
        IN  num # None /\ lo <= num[1] /\ num[1] <= hi}

SetMin(S) == CHOOSE x \in S : \A y \in S : x <= y

SetMax(S) == CHOOSE x \in S : \A y \in S : x >= y

NonEmptyUpdate ==
    last_op = "update_active_range" /\ last_detected # <<>>

UniqueNames(tpls) ==
    \A i, j \in 1..Len(tpls) : tpls[i].name = tpls[j].name => i = j

(* C1: a non-empty update taken in full-range state sets the Active Range  *)
(* to (s, e), s the smallest and e the largest store index whose name has  *)
(* a numeric level within [max(min(D) - 5, 0), max(D) + 8], and clears     *)
(* is_full_range.  (Stated for stores whose names are pairwise distinct    *)
(* and that hold a template of the window.)                                *)
C1_NarrowSpansLevelWindow ==
    (NonEmptyUpdate /\ pre_full /\ UniqueNames(templates)) =>
        LET lo == SatSub(SeqMin(last_detected), 5)
            hi == SeqMax(last_detected) + 8
            hits == LevelIndices(templates, lo, hi)
        IN  /\ ~full_range
            /\ hits # {} => active_range = <<SetMin(hits), SetMax(hits)>>

(* C2: an empty update resets the Active Range to (0, template_count - 1), *)
(* (0, 0) for an empty store, and sets is_full_range, whatever the state   *)
(* before.                                                                 *)
C2_EmptyUpdateResets ==
    (last_op = "update_active_range" /\ last_detected = <<>>) =>
        /\ full_range
        /\ active_range =
               IF templates = <<>> THEN <<0, 0>> ELSE <<0, Len(templates) - 1>>

C2_Witness ==
    /\ last_op = "update_active_range" /\ last_detected = <<>>
    /\ ~pre_full
    /\ pre_range # active_range

(* C3: no step taken in narrowed state shrinks the Active Range: the start *)
(* never increases and the end never decreases; the range gets smaller     *)
(* only by a step taken in full-range state.                               *)
C3_NarrowedNeverShrinks ==
    [][~full_range =>
          /\ active_range'[1] <= active_range[1]
          /\ active_range'[2] >= active_range[2]]_vars

C3_Witness ==
    /\ NonEmptyUpdate /\ ~pre_full
    /\ active_range[1] < pre_range[1]
    /\ active_range[2] > pre_range[2]

(* C4: every always_active template of the store is in the list returned   *)
(* by get_active_templates, whatever the Active Range and is_full_range.   *)
C4_AlwaysActiveListed ==
    \A i \in 0..(Len(templates) - 1) :
        templates[i + 1].always_active =>
            \E k \in 1..Len(GetActiveTemplates(templates, active_range)) :
                templates[GetActiveTemplates(templates, active_range)[k] + 1]
                    = templates[i + 1]

(* C11: whenever the store is non-empty, the Active Range (start, end)      *)
(* satisfies 0 <= start <= end <= template_count - 1, in every state       *)
(* reached by new, add_template and update_active_range.                   *)
C11_RangeWithinStore ==
    templates # <<>> =>
        /\ 0 <= active_range[1]
        /\ active_range[1] <= active_range[2]
        /\ active_range[2] <= Len(templates) - 1

(* A narrowed update whose upper bound max + 3 lies beyond the store.      *)
C11_Witness ==
    /\ last_op = "update_active_range"
    /\ ~pre_full
    /\ last_detected # <<>>
    /\ SeqMax(last_detected) + 3 > Len(templates) - 1
    /\ Len(templates) >= 2
    /\ active_range[2] = Len(templates) - 1

(* C12: a successful add_template appends the template at the end of the   *)
(* store, the existing templates keeping their indices, sets the Active    *)
(* Range to (0, template_count - 1) of the grown store and sets the        *)
(* full-range flag, whatever the selector state was.                       *)
C12_AddTemplateAppendsAndResets ==
    [][last_op' = "add_template" =>
          /\ Len(templates') = Len(templates) + 1
          /\ SubSeq(templates', 1, Len(templates)) = templates
          /\ active_range' = <<0, Len(templates')  - 1>>
          /\ full_range']_vars

(* add_template on a narrowed selector whose store held other templates.   *)
C12_Witness ==
    /\ last_op = "add_template"
    /\ ~pre_full
    /\ Len(templates) = 3
    /\ pre_range # <<0, 1>>
    /\ templates[3] # templates[1]
    /\ active_range = <<0, 2>> /\ full_range

(* C13: an add_template call that fails leaves the store, the Active Range *)
(* and the full-range flag as they were.                                   *)
C13_FailedAddChangesNothing ==
    [][last_op' = "add_template_err" =>
          UNCHANGED <<templates, active_range, full_range>>]_vars

(* A failed add_template on a narrowed selector.                          *)
C13_Witness ==
    /\ last_op = "add_template_err"
    /\ templates # <<>>
    /\ ~full_range
    /\ active_range # <<0, Len(templates) - 1>>

(* C18: no two templates of the store have the same name.                  *)
C18_NamesUnique == UniqueNames(templates)

(* C19: with an empty store get_active_templates returns the empty list,   *)
(* after any sequence of update_active_range calls.                        *)
C19_EmptyStoreNothingActive ==
    templates = <<>> => GetActiveTemplates(templates, active_range) = <<>>

(* A narrowed update with detected levels on the empty store.              *)
C19_Witness ==
    /\ templates = <<>>
    /\ last_op = "update_active_range"
    /\ last_detected # <<>>
    /\ ~pre_full

(* The store holds the levels 1, 2, .. at the indices 0, 1, ..             *)
AscendingNoGaps(tpls) ==
    \A i \in 1..Len(tpls) : NameLevel(tpls[i].name) = Some(i)

(* C20: on a store in ascending level order without gaps, after a narrowed *)
(* update with non-empty detected levels D, the Active Range contains the  *)
(* index of every template whose level is in                               *)
(* [max(min(D) - 3, 0), max(D) + 3].                                       *)
C20_NarrowedCoversLevelWindow ==
    (/\ AscendingNoGaps(templates)
     /\ last_op = "update_active_range"
     /\ ~pre_full
     /\ last_detected # <<>>) =>
        \A i \in LevelIndices(templates, SatSub(SeqMin(last_detected), 3),
                               SeqMax(last_detected) + 3) :
            active_range[1] <= i /\ i <= active_range[2]

Max2(a, b) == IF a > b THEN a ELSE b

(* C21: in the narrowed state an update with non-empty detected levels D   *)
(* sets the Active Range to (min(current_start, max(min(D) - 3, 0)),       *)
(* max(current_end, max(D) + 3)), each bound capped at template_count - 1, *)
(* whatever the template names are, and leaves the full-range flag false.  *)
C21_NarrowedUpdateFormula ==
    (last_op = "update_active_range" /\ ~pre_full /\ last_detected # <<>>) =>
        /\ active_range[1] =
              Min2(Min2(pre_range[1],
                        Max2(SeqMin(last_detected) - 3, 0)),
                   Max2(Len(templates) - 1, 0))
        /\ active_range[2] =
              Min2(Max2(pre_range[2], SeqMax(last_detected) + 3),
                   Max2(Len(templates) - 1, 0))
        /\ ~full_range

(* Both bounds move, the end to an index before the last one.              *)
C21_Witness ==
    /\ last_op = "update_active_range" /\ ~pre_full
    /\ active_range[1] < pre_range[1]
    /\ pre_range[2] < active_range[2]
    /\ active_range[2] < Len(templates) - 1

(* The 0-based indices of tpls whose always_active flag is `flag`, in       *)
(* store order.                                                            *)
IndicesWith(tpls, flag) ==
    LET S == {i \in 0..(Len(tpls) - 1) : tpls[i + 1].always_active = flag}
        f == CHOOSE g \in [1..Cardinality(S) -> S] :
                 \A i, j \in 1..Cardinality(S) : i < j => g[i] < g[j]
    IN  [k \in 1..Cardinality(S) |-> f[k]]

(* C26: when the full-range flag is set and the names are unique,          *)
(* get_active_templates returns every template of the store exactly once:  *)
(* the always_active ones first, then the others, each in store order.     *)
C26_FullRangeListsAll ==
    (full_range /\ UniqueNames(templates)) =>
        GetActiveTemplates(templates, active_range)
            = IndicesWith(templates, TRUE) \o IndicesWith(templates, FALSE)

(* A full store whose always_active template is not the first one.         *)
C26_Witness ==
    /\ full_range /\ UniqueNames(templates)
    /\ Len(templates) = 3
    /\ ~templates[1].always_active
    /\ templates[2].always_active
    /\ ~templates[3].always_active
    /\ last_op = "update_active_range" /\ ~pre_full

FullRangeCoversStore ==
    full_range => active_range = <<0, Max2(Len(templates) - 1, 0)>>

(* C27: the full-range flag implies Active Range = (0, max(count - 1, 0)); *)
(* the flag becomes false only by a non-empty update in the full-range     *)
(* state, and true again only by an empty update or by add_template.       *)
C27_FullRangeFlag ==
    [][/\ FullRangeCoversStore
       /\ FullRangeCoversStore'
       /\ (full_range /\ ~full_range') =>
              (last_op' = "update_active_range" /\ last_detected' # <<>>)
       /\ (~full_range /\ full_range') =>
              \/ last_op' = "add_template"
              \/ last_op' = "update_active_range" /\ last_detected' = <<>>]_vars

(* The flag was cleared by an update that left the range as it was.        *)
C27_Witness ==
    /\ last_op = "update_active_range"
    /\ pre_full /\ ~full_range
    /\ Len(templates) >= 2
    /\ active_range = <<0, Len(templates) - 1>>

----------------------------------------------------------------------------
(* Properties of the deduplicator                                          *)

DistSq(a, b) ==
    (a.location[1] - b.location[1]) * (a.location[1] - b.location[1])
    + (a.location[2] - b.location[2]) * (a.location[2] - b.location[2])

Elements(seq) == {seq[i] : i \in 1..Len(seq)}

(* The min_separation_distance of a detection's template, by name lookup.  *)
MinDistanceOf(d) == FindTemplate(templates, d.object_name)[1].min_distance

Known(d) == FindTemplate(templates, d.object_name) # None

FilterCalled == last_op = "filter_close_detections"

(* Two detections whose templates share min_separation_distance and whose  *)
(* confidences differ, as the whole input.                                 *)
SharedDistancePair ==
    /\ FilterCalled /\ Len(results) = 2
    /\ Known(results[1]) /\ Known(results[2])
    /\ MinDistanceOf(results[1]) = MinDistanceOf(results[2])
    /\ results[1].confidence # results[2].confidence

Higher(a, b) == IF a.confidence > b.confidence THEN a ELSE b

(* C7: of two detections whose templates share min_separation_distance d   *)
(* and whose confidences differ, only the higher-confidence one is         *)
(* returned when they are d - 1 apart, and both are when d + 1 apart.      *)
C7_SuppressionRadius ==
    SharedDistancePair =>
        LET a == results[1]
            b == results[2]
            d == MinDistanceOf(a)
        IN  /\ DistSq(a, b) = (d - 1) * (d - 1) =>
                   returned = <<Higher(a, b)>>
            /\ DistSq(a, b) = (d + 1) * (d + 1) =>
                   Len(returned) = 2 /\ Elements(returned) = {a, b}

C7_Witness ==
    /\ SharedDistancePair
    /\ results[1].object_name # results[2].object_name
    /\ DistSq(results[1], results[2])
          = (MinDistanceOf(results[1]) - 1) * (MinDistanceOf(results[1]) - 1)
    /\ returned = <<results[2]>>

(* C8 as claimed: no returned detection lies closer than its own           *)
(* template's min_separation_distance to a detection accepted before it.   *)
C8_OwnDistanceSuppresses ==
    FilterCalled =>
        \A i, j \in 1..Len(returned) :
            i < j => DistSq(returned[i], returned[j])
                        >= MinDistanceOf(returned[j]) * MinDistanceOf(returned[j])

(* C8 amended: no returned detection lies closer to a detection accepted   *)
(* before it than the min_separation_distance of that accepted             *)
(* detection's template.                                                   *)
C8_AcceptedDistanceSuppresses ==
    FilterCalled =>
        \A i, j \in 1..Len(returned) :
            i < j => DistSq(returned[i], returned[j])
                        >= MinDistanceOf(returned[i]) * MinDistanceOf(returned[i])

(* The second detection keeps its own distance from the accepted one, but *)
(* not the accepted one's, and is suppressed.                              *)
C8_Witness ==
    /\ FilterCalled
    /\ Len(results) = 2 /\ Known(results[1]) /\ Known(results[2])
    /\ returned = <<results[1]>>
    /\ DistSq(results[1], results[2])
          >= MinDistanceOf(results[2]) * MinDistanceOf(results[2])
    /\ DistSq(results[1], results[2])
          < MinDistanceOf(results[1]) * MinDistanceOf(results[1])

(* C9: filter_close_detections returns the same set of detections for      *)
(* every permutation of its input list, equal confidences included.        *)
C9_PermutationInvariant ==
    FilterCalled =>
        \A p \in IndexPermutations(Len(results)) :
            Elements(FilterCloseDetections(templates,
                        [i \in 1..Len(results) |-> results[p[i]]]))
                = Elements(returned)

(* C16: a detection whose object_name matches no template of the store is *)
(* not returned, and the other detections are accepted or rejected as if   *)
(* it had not been in the input.                                           *)
C16_UnknownNameDropped ==
    FilterCalled =>
        /\ \A k \in 1..Len(returned) : Known(returned[k])
        /\ returned = FilterCloseDetections(templates,
                          SelectSeq(results, LAMBDA d : Known(d)))

(* The best detection is of an unknown name, and a detection of a stored   *)
(* template at the same place is returned.                                 *)
C16_Witness ==
    /\ FilterCalled
    /\ \E i, j \in 1..Len(results) :
          /\ ~Known(results[i]) /\ Known(results[j])
          /\ results[i].confidence > results[j].confidence
          /\ results[i].location = results[j].location
          /\ \E k \in 1..Len(returned) : returned[k] = results[j]

(* The elements of seq at the positions A, in order.                       *)
Pick(seq, A) ==
    LET f == CHOOSE g \in [1..Cardinality(A) -> A] :
                 \A i, j \in 1..Cardinality(A) : i < j => g[i] < g[j]
    IN  [k \in 1..Cardinality(A) |-> seq[f[k]]]

(* A is the set of positions the greedy rule accepts in the list `sorted`. *)
GreedyAccepts(sorted, A) ==
    \A i \in 1..Len(sorted) :
        i \in A <=>
            /\ Known(sorted[i])
            /\ \A j \in A :
                  j < i => DistSq(sorted[j], sorted[i])
                              >= MinDistanceOf(sorted[j])
                                   * MinDistanceOf(sorted[j])

(* C22: the filter is greedy in descending confidence: a detection of a    *)
(* known template is returned if and only if no detection accepted before  *)
(* it lies at a distance strictly below that accepted detection's          *)
(* min_distance; hence an earlier returned detection a and a later one b   *)
(* are at least a's min_distance apart, and the returned list is in        *)
(* non-increasing confidence order.                                        *)
C22_GreedyByConfidence ==
    FilterCalled =>
        LET sorted == SortByConfidence(results)
        IN  /\ \A i, j \in 1..Len(sorted) :
                  i < j => sorted[i].confidence >= sorted[j].confidence
            /\ \E A \in SUBSET (1..Len(sorted)) :
                  GreedyAccepts(sorted, A) /\ returned = Pick(sorted, A)
            /\ \A a, b \in 1..Len(returned) :
                  a < b =>
                     /\ DistSq(returned[a], returned[b])
                           >= MinDistanceOf(returned[a])
                                * MinDistanceOf(returned[a])
                     /\ returned[a].confidence >= returned[b].confidence

(* Three detections of known templates with different min_distance: the    *)
(* best is accepted, the second rejected by it, the third accepted.        *)
C22_Witness ==
    /\ FilterCalled
    /\ Len(results) = 3 /\ Len(returned) = 2
    /\ \A k \in 1..3 : Known(results[k])
    /\ \E i, j \in 1..3 : MinDistanceOf(results[i]) # MinDistanceOf(results[j])
    /\ \E k \in 1..3 :
          /\ results[k] \notin Elements(returned)
          /\ results[k].confidence >= returned[2].confidence

----------------------------------------------------------------------------
(* Properties of the detect pipeline                                       *)

DetectCalled == last_op = "detect"

ActiveNames ==
    {templates[GetActiveTemplates(templates, active_range)[k] + 1].name :
        k \in 1..Len(GetActiveTemplates(templates, active_range))}

(* C5: after a detect pass with at least one detection of a numeric level, *)
(* every template detected in that pass is in the active set of the next   *)
(* pass.                                                                   *)
C5_DetectedStayActive ==
    (DetectCalled /\ last_detected # <<>>) =>
        \A k \in 1..Len(returned) : returned[k].object_name \in ActiveNames

NoLevel(r) == NameLevel(r.object_name) = None

OnlyUnnumbered ==
    /\ DetectCalled /\ results # <<>>
    /\ \A k \in 1..Len(results) : NoLevel(results[k])

(* C6 as claimed: a detection of a template without trailing number        *)
(* contributes level 0, so a frame with only such detections gives the     *)
(* level set {0} and does not take the empty-detection reset.              *)
C6_UnnumberedCountsAsZero ==
    OnlyUnnumbered => Elements(last_detected) = {0} /\ ~full_range

(* C6 amended: a detection of a template without trailing number           *)
(* contributes no level: the detected levels are those of the other        *)
(* detections, in order; a frame with only such detections gives the empty *)
(* level set and takes the empty-detection reset.                          *)
C6_UnnumberedContributesNothing ==
    DetectCalled =>
        LET numbered == SelectSeq(results, LAMBDA r : ~NoLevel(r))
        IN  /\ last_detected = [k \in 1..Len(numbered) |->
                                   NameLevel(numbered[k].object_name)[1]]
            /\ OnlyUnnumbered =>
                   /\ last_detected = <<>>
                   /\ full_range
                   /\ active_range = <<0, Len(templates) - 1>>

C6_Witness ==
    /\ OnlyUnnumbered
    /\ ~pre_full
    /\ pre_range # active_range

C14_DetectNeverFails == last_op # "detect_err"

(* The raw detections of the template of the given name.                   *)
DetectionsOf(rs, name) == SelectSeq(rs, LAMBDA r : r.object_name = name)

(* The active templates the last detect call matched.                      *)
MatchedTemplates == GetActiveTemplates(templates, pre_range)

(* C15: when the resize, correlation or threshold step of one active       *)
(* template T fails during detect, the call returns no detection of T and  *)
(* the raw detections of every other active template are those of the      *)
(* same call with T's step not failing.                                    *)
C15_FailureIsolated ==
    DetectCalled =>
        \A k \in 1..Len(surfaces) :
            surfaces[k] = Failed =>
                LET name(j) == templates[MatchedTemplates[j] + 1].name
                IN  /\ DetectionsOf(results, name(k)) = <<>>
                    /\ DetectionsOf(returned, name(k)) = <<>>
                    /\ \A s \in DetectSurfaces \ {Failed} :
                         \A j \in (1..Len(surfaces)) \ {k} :
                            DetectionsOf(
                                DetectObjectsOptimized(templates, pre_range,
                                    pre_full, [surfaces EXCEPT ![k] = s],
                                    [i \in 1..Len(surfaces) |-> i]).all_results,
                                name(j))
                            = DetectionsOf(results, name(j))

(* One template failed and the two others were detected.                   *)
C15_Witness ==
    /\ DetectCalled
    /\ Len(surfaces) = 3
    /\ \E k \in 1..3 :
          /\ surfaces[k] = Failed
          /\ \A j \in (1..3) \ {k} :
                /\ surfaces[j] # Failed
                /\ DetectionsOf(results,
                       templates[MatchedTemplates[j] + 1].name) # <<>>

----------------------------------------------------------------------------
(* Properties of the matcher                                               *)

(* Every score of the worker's response surface is below the threshold.    *)
SurfaceBelowThreshold ==
    \A x \in 1..Len(matcher.result_mat) :
        matcher.result_mat[x] < templates[1].threshold

(* C17: every detection the Matcher emits has confidence >= the            *)
(* template's match_threshold, and it emits no further detection once the  *)
(* maximum of the remaining response surface is below match_threshold.     *)
C17_StopsBelowThreshold ==
    [][matcher.pc = "loop" =>
          /\ \A k \in 1..Len(matcher'.local_results) :
                matcher'.local_results[k].confidence
                    >= templates[1].threshold
          /\ SurfaceBelowThreshold =>
                matcher'.local_results = matcher.local_results]_vars

(* The positions still set in the worker's mask.                           *)
Masked == {x \in 1..Len(matcher.mask) : matcher.mask[x]}

(* C23: the extraction loop terminates for every surface and every         *)
(* non-negative threshold: an iteration that does not leave the loop       *)
(* removes at least one position from the mask, and with no masked         *)
(* position left the loop stops without emitting a detection.              *)
C23_LoopTerminates ==
    [][matcher.pc = "loop" =>
          /\ matcher'.pc = "loop" =>
                Cardinality({x \in 1..Len(matcher'.mask) : matcher'.mask[x]})
                    < Cardinality(Masked)
          /\ Masked = {} =>
                /\ matcher'.pc = "done"
                /\ matcher'.local_results = matcher.local_results]_vars

(* The position on the scaled surface of an emitted location.              *)
SurfaceX(d) == (d.location[1] * ScaleNum) \div ScaleDen

(* C24: in one Matcher run no detection lies inside the rectangle zeroed   *)
(* for an earlier detection of the run, no location is emitted twice, and  *)
(* the detections are in non-increasing confidence order.                  *)
C24_NoRedetection ==
    matcher.pc \in {"loop", "done"} =>
        \A a, b \in 1..Len(matcher.local_results) :
            a < b =>
                LET da == matcher.local_results[a]
                    db == matcher.local_results[b]
                IN  /\ ~InRect(SurfaceX(db), SurfaceX(da), templates[1].cols)
                    /\ da.location # db.location
                    /\ da.confidence >= db.confidence

----------------------------------------------------------------------------
(* Properties of a detect call and its workers                             *)

(* C25: in one detect call the active set is fixed before a worker starts  *)
(* and the Active Range changes only after all workers have completed;     *)
(* whatever the completion order, the returned list and the resulting      *)
(* Active Range are those of the call on its start state.                  *)
C25_WorkersIsolated ==
    [][workers.pc = "running" =>
          /\ workers.active = GetActiveTemplates(templates, active_range)
          /\ workers'.pc = "running" =>
                /\ UNCHANGED <<templates, active_range, full_range>>
                /\ workers'.active = workers.active
          /\ <<active_range, full_range>>' # <<active_range, full_range>> =>
                \A k \in 1..Len(workers.slots) : workers.slots[k] # None
          /\ workers'.pc = "done" =>
                LET out == DetectObjectsOptimized(templates, active_range,
                              full_range, surfaces,
                              [k \in 1..Len(surfaces) |-> k])
                IN  /\ returned' = out.returned
                    /\ active_range' = out.active_range
                    /\ full_range' = out.full_range]_vars

(* A call whose workers completed in another than index order, two of them *)
(* with equally confident detections at one location.                      *)
C25_Witness ==
    /\ workers.pc = "done"
    /\ \E i, j \in 1..Len(workers.order) :
          i < j /\ workers.order[i] > workers.order[j]
    /\ returned # <<>>
    /\ active_range # pre_range
    /\ \E i, j \in 1..Len(results) :
          /\ results[i].object_name # results[j].object_name
          /\ results[i].confidence = results[j].confidence
          /\ results[i].location = results[j].location

----------------------------------------------------------------------------
(* Properties of process_barrels and process_magnets_cloud                 *)

(* C28: every mousedown issued is followed by a mouseup before the         *)
(* function returns, on every return path.                                 *)
C28_ButtonReleasedOnReturn ==
    proc.pc = "returned" => proc.button = "up"

(* Two barrels of the list that process_barrels would merge.               *)
Mergeable(barrels, a, b) ==
    /\ a # b
    /\ barrels[a].object_name = barrels[b].object_name
    /\ HasTemplate(templates,
           BarrelName(LevelOrZero(barrels[a].object_name) + 1))

InRound == proc.pc \in {"lookup", "move_from", "press", "drag", "release"}

(* C29: when process_barrels returns Ok, its list holds no two entries of  *)
(* the same name of level L for which a template "Barrel L+1" exists; in   *)
(* one planning round every barrel index takes part in at most one merge.  *)
C29_NoMergeLeft ==
    proc.fn = "process_barrels" =>
        /\ (proc.pc = "returned" /\ proc.result = "ok") =>
              \A a, b \in 1..Len(proc.barrels) :
                  ~Mergeable(proc.barrels, a, b)
        /\ InRound =>
              \A m, n \in 1..Len(proc.merges) :
                  /\ proc.merges[m][1] # proc.merges[m][2]
                  /\ m # n =>
                        {proc.merges[m][1], proc.merges[m][2]}
                        \cap {proc.merges[n][1], proc.merges[n][2]} = {}

(* A successful return after a merge, with two equal barrels left whose    *)
(* next level has no template.                                             *)
C29_Witness ==
    /\ proc.fn = "process_barrels"
    /\ proc.pc = "returned" /\ proc.result = "ok"
    /\ proc.new_barrels # <<>>
    /\ \E a, b \in 1..Len(proc.barrels) :
          a # b /\ proc.barrels[a].object_name = proc.barrels[b].object_name

(* C30: the merge loop of process_barrels terminates: a round of k >= 1    *)
(* merges takes k steps through its merges and leaves k barrels fewer, and *)
(* a round that finds no merge leaves the loop.                            *)
C30_RoundsShrinkTheList ==
    [][proc.fn = "process_barrels" =>
          /\ (proc.pc = "plan" /\ proc'.pc = "lookup") =>
                Len(proc'.merges) >= 1 /\ proc'.k = 1
          /\ (proc.pc = "release" /\ proc'.pc = "lookup") =>
                proc'.k = proc.k + 1 /\ proc'.k <= Len(proc.merges)
          /\ (proc.pc = "release" /\ proc'.pc = "plan") =>
                /\ proc.k = Len(proc.merges)
                /\ Len(proc'.barrels)
                      = Len(proc.barrels) - Len(proc.merges)
          /\ (/\ proc.pc = "plan"
              /\ \A a, b \in 1..Len(proc.barrels) :
                    ~Mergeable(proc.barrels, a, b)) =>
                proc'.pc = "returned" /\ proc'.result = "ok"]_vars

(* Four barrels of level 1 became one barrel of level 3 in two rounds.     *)
C30_Witness ==
    /\ proc.fn = "process_barrels"
    /\ proc.pc = "returned" /\ proc.result = "ok"
    /\ Len(proc.barrels) = 1
    /\ proc.barrels[1].object_name = BarrelName(3)
    /\ proc.new_barrels # <<>>

====
